---- MODULE Spec2Model ----
(***************************************************************************)
(* HelpFormatter of discord/ext/commands/formatter.py: the paginated help  *)
(* output of a command catalog.                                            *)
(*                                                                         *)
(* Text is modelled by what the code does with it.  A page is the sequence *)
(* of the strings that '\n'.join receives; each string is a record with    *)
(* its kind, its length in characters and, for category headers and entry  *)
(* lines, the label or the key it was built from.  Category labels are     *)
(* sequences of code points, because sorted() compares them; the text      *)
(* given to textwrap is the sequence of chunks TextWrapper._split makes of *)
(* it (runs of blanks and words).                                          *)
(***************************************************************************)
EXTENDS Integers, Sequences, FiniteSets, TLC

\* ------------------------------------------------------------------ bounds
\* Largest number of keys in the children mapping of a target.
MaxCmds == 3
\* A line width wide enough for two entry lines to fill a page.
WideWidth == 1000
\* Lengths of description and help texts that bring the running size close
\* to, and over, the page limit.
ShortDesc == 12
NearDesc == 1880
LongDesc == 2500
LongHelp == 1920
\* The help length with which the running size of the command "ping" without
\* description is the page limit itself.
EdgeHelp == 1907
\* shorten alone: the number of chunks of a text, the longest word, the
\* narrowest width and the number of widths above it
MaxChunks == 4
MaxWord == 7
NarrowWidth == 5
WidthSpan == 5
\* the calls of format_help_for on one instance
MaxCalls == 2
\* The overhead granted to a page on top of the limit and the fence when the
\* budget of a page is stated with a fixed constant.
Overhead == 100

\* ------------------------------------------------------- program constants
PageLimit == 1920
InitialCount == 4
ResetCount == 4
DefaultWidth == 80
\* len(' [...]'), the placeholder of textwrap.TextWrapper
PlaceholderLen == 6
\* len of get_ending_note() for an empty prefix; the prefix occurs twice
EndingNoteBase == 106

None == <<>>

Max(a, b) == IF a >= b THEN a ELSE b

RECURSIVE SumLen(_)
SumLen(s) == IF s = <<>> THEN 0 ELSE s[1].len + SumLen(Tail(s))

Front(s) == SubSeq(s, 1, Len(s) - 1)
Last(s) == s[Len(s)]

\* --------------------------------------------------------------- textwrap
W(n) == [ws |-> FALSE, len |-> n]
S(n) == [ws |-> TRUE, len |-> n]

\* chunk.strip() == '' : a run of blanks, or the empty piece of a long word
IsBlank(c) == c.ws \/ c.len = 0

\* while chunks: take chunks[-1] while cur_len + l <= width
RECURSIVE FitCount(_, _)
FitCount(chunks, room) ==
  IF chunks = <<>> \/ chunks[1].len > room THEN 0
  ELSE 1 + FitCount(Tail(chunks), room - chunks[1].len)

\* the else branch of _wrap_chunks for the last allowed line: drop chunks
\* from the end until a word is last and the placeholder fits
RECURSIVE PlaceholderLine(_, _)
PlaceholderLine(cur, width) ==
  IF cur = <<>> THEN [len |-> PlaceholderLen - 1, placeholder |-> TRUE, kept |-> 0]
  ELSE IF ~IsBlank(Last(cur)) /\ SumLen(cur) + PlaceholderLen <= width
       THEN [len |-> SumLen(cur) + PlaceholderLen, placeholder |-> TRUE,
             kept |-> SumLen(cur)]
       ELSE PlaceholderLine(Front(cur), width)

\* the first line of the greedy wrap of the chunks, TextWrapper.wrap()[0]
\* with max_lines = None, and whether the wrap has more lines
RECURSIVE FirstWrapLine(_, _)
FirstWrapLine(chunks, width) ==
  IF chunks = <<>> THEN [len |-> 0, more |-> FALSE]
  ELSE
    LET k == FitCount(chunks, width)
        fit == SubSeq(chunks, 1, k)
        rest0 == SubSeq(chunks, k + 1, Len(chunks))
        long == rest0 # <<>> /\ rest0[1].len > width
        space_left == width - SumLen(fit)
        cur0 == IF long
                THEN Append(fit, [ws |-> rest0[1].ws, len |-> space_left])
                ELSE fit
        rest == IF long
                THEN <<[ws |-> rest0[1].ws, len |-> rest0[1].len - space_left]>>
                     \o Tail(rest0)
                ELSE rest0
        cur == IF cur0 # <<>> /\ IsBlank(Last(cur0)) THEN Front(cur0) ELSE cur0
    IN IF cur = <<>> THEN FirstWrapLine(rest, width)
       ELSE [len |-> SumLen(cur),
             more |-> \E i \in 1..Len(rest) : ~IsBlank(rest[i])]

\* fill() that returns the first line of the wrap as it is
WrapOneLine_first_line(chunks, width) ==
  [len |-> FirstWrapLine(chunks, width).len, placeholder |-> FALSE,
   kept |-> FirstWrapLine(chunks, width).len]

\* TextWrapper.fill with max_lines = 1: the one line wrap() returns, or ''
RECURSIVE WrapOneLine(_, _)
WrapOneLine(chunks, width) ==
  IF chunks = <<>> THEN [len |-> 0, placeholder |-> FALSE, kept |-> 0]
  ELSE
    LET k == FitCount(chunks, width)
        fit == SubSeq(chunks, 1, k)
        rest0 == SubSeq(chunks, k + 1, Len(chunks))
        long == rest0 # <<>> /\ rest0[1].len > width
        space_left == width - SumLen(fit)
        cur0 == IF long
                THEN Append(fit, [ws |-> rest0[1].ws, len |-> space_left])
                ELSE fit
        rest == IF long
                THEN <<[ws |-> rest0[1].ws, len |-> rest0[1].len - space_left]>>
                     \o Tail(rest0)
                ELSE rest0
        cur == IF cur0 # <<>> /\ IsBlank(Last(cur0)) THEN Front(cur0) ELSE cur0
    IN IF cur = <<>> THEN WrapOneLine(rest, width)
       ELSE IF (rest = <<>> \/ (Len(rest) = 1 /\ rest[1].ws))
               /\ SumLen(cur) <= width
            THEN [len |-> SumLen(cur), placeholder |-> FALSE, kept |-> SumLen(cur)]
            ELSE PlaceholderLine(cur, width)

shorten(chunks, width) == WrapOneLine(chunks, width)

\* '  {0:<{width}} {1}'.format(name, command.short_doc, width=max_width)
EntryChunks(name, short_doc, max_width) ==
  <<S(2), W(Len(name)), S(Max(0, max_width - Len(name)) + 1)>> \o short_doc

\* ------------------------------------------------------------------ lines
FenceLen == 3

Line(kind, len, name, label) ==
  [kind |-> kind, len |-> len, name |-> name, label |-> label]

Fence == Line("fence", FenceLen, "", None)
Blank == Line("blank", 0, "", None)

\* ------------------------------------------------------------- the catalog
Command(name, aliases, short_doc, hidden, can_run, cog_name) ==
  [name |-> name, aliases |-> aliases, short_doc |-> short_doc,
   hidden |-> hidden, can_run |-> can_run, cog_name |-> cog_name]

Math == <<77, 97, 116, 104>>
Fun == <<70, 117, 110>>
admin == <<97, 100, 109, 105, 110>>
Kanji == <<26085, 26412>>

cmd_sub == Command("sub", <<>>, <<W(9)>>, FALSE, "True", Math)
cmd_roll == Command("roll", <<>>, <<W(WideWidth - 10)>>, FALSE, "True", Fun)
cmd_add == Command("add", <<"plus">>, <<W(4), S(1), W(3), S(1), W(7)>>,
                   FALSE, "True", Math)
cmd_go == Command("go", <<"go">>, <<W(2)>>, FALSE, "True", None)
cmd_secret == Command("secret", <<>>, <<W(6)>>, TRUE, "True", Fun)
cmd_ban == Command("ban", <<>>, <<W(4), S(1), W(5)>>, FALSE, "False", admin)
cmd_boom == Command("boom", <<>>, <<W(5)>>, FALSE, "CheckFailure", None)
cmd_kanji == Command("kanji", <<>>, <<W(WideWidth - 10)>>, FALSE, "True", Kanji)

\* the (key, command) pairs commands.items() can hold, in insertion order
Palette ==
  << <<"sub", cmd_sub>>, <<"roll", cmd_roll>>, <<"add", cmd_add>>,
     <<"plus", cmd_add>>, <<"go", cmd_go>>, <<"secret", cmd_secret>>,
     <<"ban", cmd_ban>>, <<"boom", cmd_boom>>, <<"kanji", cmd_kanji>> >>

RECURSIVE Pick(_, _)
Pick(idx, i) ==
  IF i > Len(Palette) THEN <<>>
  ELSE (IF i \in idx THEN <<Palette[i]>> ELSE <<>>) \o Pick(idx, i + 1)

\* the key of an alias is registered together with its command
Catalogs ==
  {Pick(idx, 1) : idx \in {x \in SUBSET (1..Len(Palette)) :
                               Cardinality(x) <= MaxCmds /\ (4 \in x => 3 \in x)}}

Param(nameLen, hasDefault, defaultLen, var) ==
  [nameLen |-> nameLen, hasDefault |-> hasDefault, defaultLen |-> defaultLen,
   var |-> var]

DescLens == {0, ShortDesc, NearDesc, LongDesc}
HelpLens == {0, 13, LongHelp}

Bots ==
  {[kind |-> "bot", name |-> "", aliases |-> <<>>, params |-> <<>>,
    description |-> d, help |-> 0, commands |-> c] :
      d \in DescLens, c \in Catalogs}

Groups ==
  {[kind |-> "group", name |-> "cfg", aliases |-> <<"c", "conf">>,
    params |-> <<Param(8, FALSE, 0, FALSE), Param(5, TRUE, 2, FALSE),
                 Param(4, FALSE, 0, TRUE)>>,
    description |-> d, help |-> h, commands |-> c] :
      d \in DescLens, h \in HelpLens, c \in Catalogs}

Leaves ==
  {[kind |-> "command", name |-> "ping", aliases |-> <<>>, params |-> <<>>,
    description |-> d, help |-> h, commands |-> <<>>] :
      d \in DescLens, h \in HelpLens \cup {EdgeHelp}}

Targets == Bots \cup Groups \cup Leaves

\* context.prefix as the number of its characters outside mentions of the
\* bot and the number of such mentions; the bot user's mention and name
Contexts ==
  {[plain |-> 1, mentions |-> m, mentionLen |-> 21, nameLen |-> 3] : m \in {0, 1}}

Widths == {DefaultWidth, WideWidth}

VARIABLES show_hidden, show_check_faiure, width,
          context, command,
          _pages, _current_page, _count,
          pc, error, max_width, groups, queue, scanned, yielded,
          appended, exceeded, rollovers,
          calls, held,
          text, res

config == <<show_hidden, show_check_faiure, width>>
target == <<context, command>>
page == <<_pages, _current_page, _count>>
locals == <<max_width, groups, queue, scanned, yielded>>
history == <<appended, exceeded, rollovers>>
\* the caller of format_help_for: the calls it has made on the instance and
\* the list the first of them returned
caller == <<calls, held>>
\* the argument and the result of a call of shorten alone
wrap == <<text, res>>
vars == <<config, target, page, pc, error, locals, history, caller, wrap>>

\* ------------------------------------------------------- pure operations
\* has_subcommands without the isinstance test
has_subcommands_always(cmd) == TRUE

has_subcommands(cmd) == cmd.kind \in {"bot", "group"}

is_bot(cmd) == cmd.kind = "bot"

RECURSIVE MaxNameLen(_)
MaxNameLen(items) ==
  IF items = <<>> THEN 0
  ELSE Max(Len(items[1][2].name), MaxNameLen(Tail(items)))

\* max() of an empty sequence raises ValueError, which the except clause
\* for AttributeError does not catch
max_name_size(cmd) ==
  IF cmd.commands = <<>> THEN [error |-> "ValueError", value |-> 0]
  ELSE [error |-> "", value |-> MaxNameLen(cmd.commands)]

clean_prefix(ctx) == ctx.plain + ctx.mentions * (1 + ctx.nameLen)

RECURSIVE JoinLen(_, _)
JoinLen(lens, sep) ==
  IF lens = <<>> THEN 0
  ELSE IF Len(lens) = 1 THEN lens[1]
  ELSE lens[1] + sep + JoinLen(Tail(lens), sep)

ParamToken(p) ==
  IF p.hasDefault THEN p.nameLen + 1 + p.defaultLen
  ELSE IF p.var THEN p.nameLen + 3
  ELSE p.nameLen

\* the length of ' '.join(result)
get_command_signature(ctx, cmd) ==
  LET aliases == [i \in 1..Len(cmd.aliases) |-> Len(cmd.aliases[i])]
      name == IF Len(cmd.aliases) > 0
              THEN clean_prefix(ctx) + 1 + Len(cmd.name) + 1 + JoinLen(aliases, 1) + 1
              ELSE clean_prefix(ctx) + Len(cmd.name)
      params == [i \in 1..Len(cmd.params) |-> ParamToken(cmd.params[i])]
  IN JoinLen(<<name>> \o params, 1)

get_ending_note(ctx) == EndingNoteBase + 2 * clean_prefix(ctx)

\* predicate with the test of show_check_faiure moved in front of the test
\* of hidden
predicate_checks_first(tup) ==
  LET cmd == tup[2]
  IN IF show_check_faiure THEN "True"
     ELSE IF cmd.hidden /\ ~show_hidden THEN "False"
     ELSE cmd.can_run

\* predicate of filter_command_list: "True", "False", or the exception that
\* cmd.can_run(self.context) raised
predicate(tup) ==
  LET cmd == tup[2]
  IN IF cmd.hidden /\ ~show_hidden THEN "False"
     ELSE IF show_check_faiure THEN "True"
     ELSE cmd.can_run

\* one next() on the iterator filter() returns, the first i - 1 items of
\* commands.items() being consumed: the item it yields, StopIteration, or
\* the exception of the predicate
RECURSIVE filter_next(_, _)
filter_next(items, i) ==
  IF i > Len(items) THEN [at |-> Len(items), out |-> "StopIteration"]
  ELSE LET p == predicate(items[i])
       IN IF p = "True" THEN [at |-> i, out |-> "yield"]
          ELSE IF p = "False" THEN filter_next(items, i + 1)
          ELSE [at |-> i, out |-> p]

\* the iterator consumed to its end, as sorted() does
RECURSIVE filter_command_list(_, _, _)
filter_command_list(items, i, acc) ==
  LET r == filter_next(items, i + 1)
  IN IF r.out = "yield"
     THEN filter_command_list(items, r.at, Append(acc, items[r.at]))
     ELSE [items |-> acc, at |-> r.at,
           error |-> IF r.out = "StopIteration" THEN "" ELSE r.out]

SentinelLabel == <<8203, 78, 111, 32, 67, 97, 116, 101, 103, 111, 114, 121, 58>>

category(tup) ==
  LET cog == tup[2].cog_name
  IN IF cog # None THEN cog \o <<58>> ELSE SentinelLabel

\* str.__lt__: code point by code point, a proper prefix being smaller
RECURSIVE StrLess(_, _)
StrLess(a, b) ==
  IF b = <<>> THEN FALSE
  ELSE IF a = <<>> THEN TRUE
  ELSE IF a[1] # b[1] THEN a[1] < b[1]
  ELSE StrLess(Tail(a), Tail(b))

\* an insertion that puts x in front of the elements with an equal key
RECURSIVE InsertSorted_unstable(_, _)
InsertSorted_unstable(x, s) ==
  IF s = <<>> THEN <<x>>
  ELSE IF ~StrLess(category(s[1]), category(x)) THEN <<x>> \o s
  ELSE <<s[1]>> \o InsertSorted_unstable(x, Tail(s))

\* insert x behind every element whose key is not greater (stable)
RECURSIVE InsertSorted(_, _)
InsertSorted(x, s) ==
  IF s = <<>> THEN <<x>>
  ELSE IF StrLess(category(x), category(s[1])) THEN <<x>> \o s
  ELSE <<s[1]>> \o InsertSorted(x, Tail(s))

\* sorted() left out: the data in the order of the filter
sorted_left_out(items) == items

RECURSIVE sorted(_)
sorted(items) ==
  IF items = <<>> THEN <<>>
  ELSE InsertSorted(Last(items), sorted(Front(items)))

\* itertools.groupby(data, key=category): runs of consecutive equal keys
RECURSIVE groupby(_)
groupby(data) ==
  IF data = <<>> THEN <<>>
  ELSE LET rest == groupby(Tail(data))
       IN IF rest # <<>> /\ rest[1].category = category(data[1])
          THEN <<[category |-> rest[1].category,
                  commands |-> <<data[1]>> \o rest[1].commands]>> \o Tail(rest)
          ELSE <<[category |-> category(data[1]), commands |-> <<data[1]>>]>> \o rest

\* ------------------------------------------------------ the page builder
\* the first lines of format() without self._pages = []
begin_keeps_pages(st) == [pages |-> st.pages, cur |-> <<Fence>>, count |-> InitialCount]

\* _check_new_page with >= in place of >
_check_new_page_at_limit(st) ==
  IF st.count >= PageLimit
  THEN [pages |-> Append(st.pages, Append(st.cur, Fence)),
        cur |-> <<Fence>>,
        count |-> ResetCount]
  ELSE st

\* _check_new_page that resets the count to the length of the fence alone
_check_new_page_resets_to_fence(st) ==
  IF st.count > PageLimit
  THEN [pages |-> Append(st.pages, Append(st.cur, Fence)),
        cur |-> <<Fence>>,
        count |-> FenceLen]
  ELSE st

\* _check_new_page that starts the new page without keeping the old one
_check_new_page_drops_page(st) ==
  IF st.count > PageLimit
  THEN [pages |-> st.pages, cur |-> <<Fence>>, count |-> ResetCount]
  ELSE st

\* _check_new_page without the closing fence
_check_new_page_leaves_open(st) ==
  IF st.count > PageLimit
  THEN [pages |-> Append(st.pages, st.cur), cur |-> <<Fence>>, count |-> ResetCount]
  ELSE st

\* _check_new_page without the line that starts the new page
_check_new_page_keeps_lines(st) ==
  IF st.count > PageLimit
  THEN [pages |-> Append(st.pages, Append(st.cur, Fence)),
        cur |-> st.cur,
        count |-> ResetCount]
  ELSE st

\* st = [pages, cur, count]: self._pages, self._current_page, self._count
_check_new_page(st) ==
  IF st.count > PageLimit
  THEN [pages |-> Append(st.pages, Append(st.cur, Fence)),
        cur |-> <<Fence>>,
        count |-> ResetCount]
  ELSE st

\* one iteration of the loop of _add_subcommands_to_page; the entry line is
\* <<>> when the key is an alias of its command
EntryLine(tup, maxw) ==
  IF \E i \in 1..Len(tup[2].aliases) : tup[2].aliases[i] = tup[1]
  THEN <<>>
  ELSE << Line("entry",
               shorten(EntryChunks(tup[1], tup[2].short_doc, maxw), width).len,
               tup[1], category(tup)) >>

\* _add_subcommands_to_page that appends the entry before the check
_add_subcommands_to_page_appends_first(st, tup, maxw) ==
  LET e == EntryLine(tup, maxw)
  IN IF e = <<>> THEN st
     ELSE _check_new_page([st EXCEPT !.cur = Append(@, e[1]),
                                     !.count = @ + e[1].len])

_add_subcommands_to_page(st, tup, maxw) ==
  LET e == EntryLine(tup, maxw)
  IN IF e = <<>> THEN st
     ELSE LET counted == [st EXCEPT !.count = @ + e[1].len]
              checked == _check_new_page(counted)
          IN [checked EXCEPT !.cur = Append(@, e[1])]

State == [pages |-> _pages, cur |-> _current_page, count |-> _count]

Becomes(st) ==
  /\ _pages' = st.pages
  /\ _current_page' = st.cur
  /\ _count' = st.count

\* what a step adds to the history: the lines it appended, whether the
\* running size was above the limit at any point of it, the pages it closed
Record(lines, peak, closed) ==
  /\ appended' = appended \o lines
  /\ exceeded' = (exceeded \/ peak > PageLimit)
  /\ rollovers' = rollovers + closed

\* self._current_page = ['```']; self._count = 4; self._pages = []
begin(st) == [pages |-> <<>>, cur |-> <<Fence>>, count |-> InitialCount]

\* the list a call returned, as its caller sees it: while self._pages is
\* the same object, it has the value of self._pages
NoResult == [set |-> FALSE, aliased |-> FALSE, value |-> <<>>]

\* self._pages = [] binds the attribute to a new list: a list returned
\* before keeps the value it has
NewPageList(h, ps) ==
  IF h.aliased THEN [set |-> TRUE, aliased |-> FALSE, value |-> ps] ELSE h

\* return self._pages: the caller's first result is the list itself
ReturnPages(h) ==
  IF h.set THEN h ELSE [set |-> TRUE, aliased |-> TRUE, value |-> <<>>]

\* ------------------------------------------------------------------ Init
NoTarget == [kind |-> "none"]

NoLine == [len |-> 0, placeholder |-> FALSE, kept |-> 0]

Init ==
  /\ show_hidden \in BOOLEAN
  /\ show_check_faiure \in BOOLEAN
  /\ width \in Widths
  /\ context = NoTarget
  /\ command = NoTarget
  /\ _pages = <<>>
  /\ _current_page = <<>>
  /\ _count = 0
  /\ pc = "idle"
  /\ error = ""
  /\ max_width = 0
  /\ groups = <<>>
  /\ queue = <<>>
  /\ scanned = 0
  /\ yielded = <<>>
  /\ appended = <<>>
  /\ exceeded = FALSE
  /\ rollovers = 0
  /\ calls = 0
  /\ held = NoResult
  /\ text = <<>>
  /\ res = NoLine

\* --------------------------------------------------------------- actions
\* format_help_for(context, command_or_bot) and the first lines of format()
Call(ctxs, cmds) ==
  /\ \E ctx \in ctxs, cmd \in cmds :
       /\ context' = ctx
       /\ command' = cmd
  /\ Becomes(begin(State))
  /\ pc' = "description"
  /\ error' = ""
  /\ max_width' = 0
  /\ groups' = <<>>
  /\ queue' = <<>>
  /\ scanned' = 0
  /\ yielded' = <<>>
  /\ appended' = <<>>
  /\ exceeded' = FALSE
  /\ rollovers' = 0
  /\ calls' = calls + 1
  /\ held' = NewPageList(held, _pages)
  /\ UNCHANGED <<config, wrap>>

\* the first call on a new instance
FormatHelpFor ==
  /\ pc = "idle"
  /\ Call(Contexts, Targets)

\* if self.command.description:
Description ==
  /\ pc = "description"
  /\ LET d == command.description
         lines == IF d # 0 THEN <<Line("description", d, "", None), Blank>> ELSE <<>>
         st == [State EXCEPT !.cur = @ \o lines, !.count = @ + d]
     IN /\ Becomes(st)
        /\ Record(lines, st.count, 0)
  /\ pc' = "signature"
  /\ UNCHANGED <<config, target, error, locals, caller, wrap>>

\* if not self.is_bot(): the signature and the long doc
Signature ==
  /\ pc = "signature"
  /\ IF is_bot(command)
     THEN /\ UNCHANGED page
          /\ UNCHANGED history
     ELSE LET sig == get_command_signature(context, command)
              h == command.help
              sigLines == <<Line("signature", sig, "", None), Blank>>
              helpLines == IF h # 0 THEN <<Line("help", h, "", None), Blank>> ELSE <<>>
              st1 == [State EXCEPT !.count = @ + 2 + sig, !.cur = @ \o sigLines]
              st2 == IF h # 0
                     THEN [st1 EXCEPT !.count = @ + 2 + h, !.cur = @ \o helpLines]
                     ELSE st1
              st3 == IF h # 0 THEN _check_new_page(st2) ELSE st2
          IN /\ Becomes(st3)
             /\ Record(sigLines \o helpLines, st2.count,
                       Len(st3.pages) - Len(_pages))
  /\ pc' = "subcommands"
  /\ UNCHANGED <<config, target, error, locals, caller, wrap>>

\* if not self.has_subcommands(): close the page and return
NoSubcommands ==
  /\ pc = "subcommands"
  /\ ~has_subcommands(command)
  /\ Becomes([State EXCEPT !.pages = Append(@, Append(_current_page, Fence)),
                           !.cur = Append(@, Fence)])
  /\ pc' = "done"
  /\ held' = ReturnPages(held)
  /\ UNCHANGED <<config, target, error, locals, history, calls, wrap>>

\* max_width = self.max_name_size
MaxNameSize ==
  /\ pc = "subcommands"
  /\ has_subcommands(command)
  /\ LET m == max_name_size(command)
     IN /\ error' = m.error
        /\ max_width' = m.value
        /\ pc' = IF m.error # "" THEN "raised" ELSE "listing"
  /\ UNCHANGED <<config, target, page, groups, queue, scanned, yielded, history, caller, wrap>>

\* data = sorted(self.filter_command_list(), key=category) and groupby
BotListing ==
  /\ pc = "listing"
  /\ is_bot(command)
  /\ LET f == filter_command_list(command.commands, 0, <<>>)
     IN /\ scanned' = f.at
        /\ yielded' = f.items
        /\ error' = f.error
        /\ groups' = IF f.error # "" THEN <<>> ELSE groupby(sorted(f.items))
        /\ pc' = IF f.error # "" THEN "raised"
                 ELSE IF f.items = <<>> THEN "note" ELSE "category"
  /\ UNCHANGED <<config, target, page, max_width, queue, history, caller, wrap>>

\* the body of the for loop over the groups, up to the call of
\* _add_subcommands_to_page
Category ==
  /\ pc = "category"
  /\ groups # <<>>
  /\ LET g == groups[1]
         header == Line("header", Len(g.category), "", g.category)
         st1 == IF Len(g.commands) > 0
                THEN [State EXCEPT !.cur = Append(@, header),
                                   !.count = @ + header.len]
                ELSE State
         st2 == IF Len(g.commands) > 0 THEN _check_new_page(st1) ELSE st1
     IN /\ Becomes(st2)
        /\ Record(IF Len(g.commands) > 0 THEN <<header>> ELSE <<>>, st1.count,
                  Len(st2.pages) - Len(_pages))
        /\ queue' = g.commands
        /\ groups' = Tail(groups)
  /\ pc' = "entries"
  /\ UNCHANGED <<config, target, error, max_width, scanned, yielded, caller, wrap>>

\* one iteration of the loop of _add_subcommands_to_page over the list of a
\* category; the loop over the groups ends behind the last list
AddSubcommand ==
  /\ pc = "entries"
  /\ IF queue = <<>>
     THEN /\ pc' = IF groups = <<>> THEN "note" ELSE "category"
          /\ UNCHANGED <<page, queue, history>>
     ELSE LET st == _add_subcommands_to_page(State, queue[1], max_width)
          IN /\ Becomes(st)
             /\ Record(EntryLine(queue[1], max_width),
                       _count + SumLen(EntryLine(queue[1], max_width)),
                       Len(st.pages) - Len(_pages))
             /\ queue' = Tail(queue)
             /\ pc' = "entries"
  /\ UNCHANGED <<config, target, error, max_width, groups, scanned, yielded, caller, wrap>>

\* self._current_page.append('Commands:')
GroupListing ==
  /\ pc = "listing"
  /\ ~is_bot(command)
  /\ LET header == Line("commands", 9, "", None)
         st == [State EXCEPT !.cur = Append(@, header), !.count = @ + 1 + header.len]
     IN /\ Becomes(st)
        /\ Record(<<header>>, st.count, 0)
  /\ pc' = "subentries"
  /\ UNCHANGED <<config, target, error, locals, caller, wrap>>

\* one iteration of the loop of _add_subcommands_to_page over the iterator
\* of filter_command_list()
AddFilteredSubcommand ==
  /\ pc = "subentries"
  /\ LET r == filter_next(command.commands, scanned + 1)
     IN /\ scanned' = r.at
        /\ IF r.out = "yield"
           THEN LET tup == command.commands[r.at]
                    st == _add_subcommands_to_page(State, tup, max_width)
                IN /\ Becomes(st)
                   /\ Record(EntryLine(tup, max_width),
                             _count + SumLen(EntryLine(tup, max_width)),
                             Len(st.pages) - Len(_pages))
                   /\ yielded' = Append(yielded, tup)
                   /\ pc' = "subentries"
                   /\ error' = ""
           ELSE /\ UNCHANGED <<page, yielded, history>>
                /\ error' = IF r.out = "StopIteration" THEN "" ELSE r.out
                /\ pc' = IF r.out = "StopIteration" THEN "note" ELSE "raised"
  /\ UNCHANGED <<config, target, max_width, groups, queue, caller, wrap>>

\* add the ending note
EndingNote ==
  /\ pc = "note"
  /\ LET note == Line("note", get_ending_note(context), "", None)
         st1 == [State EXCEPT !.cur = Append(@, Blank), !.count = @ + note.len]
         st2 == _check_new_page(st1)
         st3 == [st2 EXCEPT !.cur = Append(@, note)]
     IN /\ Becomes(st3)
        /\ Record(<<Blank, note>>, st1.count, Len(st2.pages) - Len(_pages))
  /\ pc' = "flush"
  /\ UNCHANGED <<config, target, error, locals, caller, wrap>>

\* if len(self._current_page) > 1: the last page
Flush ==
  /\ pc = "flush"
  /\ IF Len(_current_page) > 1
     THEN Becomes([State EXCEPT !.pages = Append(@, Append(_current_page, Fence)),
                                !.cur = Append(@, Fence)])
     ELSE UNCHANGED page
  /\ pc' = "done"
  /\ held' = ReturnPages(held)
  /\ UNCHANGED <<config, target, error, locals, history, calls, wrap>>

Next ==
  \/ FormatHelpFor
  \/ Description
  \/ Signature
  \/ NoSubcommands
  \/ MaxNameSize
  \/ BotListing
  \/ Category
  \/ AddSubcommand
  \/ GroupListing
  \/ AddFilteredSubcommand
  \/ EndingNote
  \/ Flush

Spec == Init /\ [][Next]_vars

\* ------------------------------------------------ format() as a whole
\* the attributes of an instance on which format() has not run
FreshState == [pages |-> <<>>, cur |-> <<>>, count |-> 0]

\* the loop of _add_subcommands_to_page over the commands
RECURSIVE AddAll(_, _, _)
AddAll(st, tups, maxw) ==
  IF tups = <<>> THEN st
  ELSE AddAll(_add_subcommands_to_page(st, tups[1], maxw), Tail(tups), maxw)

\* the loop over the groups of groupby
RECURSIVE AddGroups(_, _, _)
AddGroups(st, gs, maxw) ==
  IF gs = <<>> THEN st
  ELSE LET g == gs[1]
           header == Line("header", Len(g.category), "", g.category)
           st1 == IF Len(g.commands) > 0
                  THEN _check_new_page([st EXCEPT !.cur = Append(@, header),
                                                  !.count = @ + header.len])
                  ELSE st
       IN AddGroups(AddAll(st1, g.commands, maxw), Tail(gs), maxw)

\* the ending note, the last page and the return
Finish(st, ctx) ==
  LET note == Line("note", get_ending_note(ctx), "", None)
      st1 == _check_new_page([st EXCEPT !.cur = Append(@, Blank),
                                        !.count = @ + note.len])
      st2 == [st1 EXCEPT !.cur = Append(@, note)]
  IN [out |-> "done", error |-> "",
      pages |-> IF Len(st2.cur) > 1
                THEN Append(st2.pages, Append(st2.cur, Fence))
                ELSE st2.pages]

Raise(e) == [out |-> "raised", error |-> e, pages |-> <<>>]

\* what format() returns or raises on a new instance with the configuration
\* of this one, for the context and the target given
format(ctx, cmd) ==
  LET st0 == begin(FreshState)
      d == cmd.description
      st1 == IF d # 0
             THEN [st0 EXCEPT !.cur = @ \o <<Line("description", d, "", None), Blank>>,
                              !.count = @ + d]
             ELSE st0
      sig == get_command_signature(ctx, cmd)
      h == cmd.help
      st2 == IF is_bot(cmd) THEN st1
             ELSE [st1 EXCEPT !.count = @ + 2 + sig,
                              !.cur = @ \o <<Line("signature", sig, "", None), Blank>>]
      st3 == IF is_bot(cmd) \/ h = 0 THEN st2
             ELSE _check_new_page([st2 EXCEPT !.count = @ + 2 + h,
                                              !.cur = @ \o <<Line("help", h, "", None), Blank>>])
  IN IF ~has_subcommands(cmd)
     THEN [out |-> "done", error |-> "",
           pages |-> Append(st3.pages, Append(st3.cur, Fence))]
     ELSE LET m == max_name_size(cmd)
              f == filter_command_list(cmd.commands, 0, <<>>)
              commands == Line("commands", 9, "", None)
              st4 == [st3 EXCEPT !.cur = Append(@, commands),
                                 !.count = @ + 1 + commands.len]
          IN IF m.error # "" THEN Raise(m.error)
             ELSE IF f.error # "" THEN Raise(f.error)
             ELSE IF is_bot(cmd)
             THEN Finish(AddGroups(st3, groupby(sorted(f.items)), m.value), ctx)
             ELSE Finish(AddAll(st4, f.items, m.value), ctx)

\* ---------------------------------------------- two calls on an instance
RepeatCatalogs == {Pick({}, 1), Pick({1, 3}, 1), Pick({2, 9}, 1), Pick({1, 8}, 1)}

RepeatTargets ==
  {t \in Targets : /\ t.commands \in RepeatCatalogs
                   /\ t.description \in {0, NearDesc}
                   /\ t.help \in {0, LongHelp}}

FirstCall ==
  /\ pc = "idle"
  /\ Call(Contexts, RepeatTargets)

\* format_help_for on the instance when a call has returned or raised
SecondCall ==
  /\ pc \in {"done", "raised"}
  /\ calls < MaxCalls
  /\ Call(Contexts, RepeatTargets)

TwoCallNext ==
  \/ FirstCall
  \/ SecondCall
  \/ Description
  \/ Signature
  \/ NoSubcommands
  \/ MaxNameSize
  \/ BotListing
  \/ Category
  \/ AddSubcommand
  \/ GroupListing
  \/ AddFilteredSubcommand
  \/ EndingNote
  \/ Flush

TwoCallSpec == Init /\ [][TwoCallNext]_vars

\* ------------------------------------------------------- shorten alone
\* the chunks TextWrapper._split gives: words, pieces of hyphenated words
\* and runs of blanks, no two runs of blanks next to each other
ShortenChunks == {W(1), W(3), W(MaxWord), S(1), S(2)}

RECURSIVE TextsOfLen(_)
TextsOfLen(n) ==
  IF n = 0 THEN {<<>>}
  ELSE {Append(t, c) : t \in TextsOfLen(n - 1), c \in ShortenChunks}

Texts ==
  {t \in UNION {TextsOfLen(n) : n \in 0..MaxChunks} :
     \A i \in 1..(Len(t) - 1) : ~(t[i].ws /\ t[i + 1].ws)}

ShortenWidths == NarrowWidth..(NarrowWidth + WidthSpan)

ShortenInit ==
  /\ show_hidden = FALSE
  /\ show_check_faiure = FALSE
  /\ width \in ShortenWidths
  /\ context = NoTarget
  /\ command = NoTarget
  /\ _pages = <<>>
  /\ _current_page = <<>>
  /\ _count = 0
  /\ pc = "shorten"
  /\ error = ""
  /\ max_width = 0
  /\ groups = <<>>
  /\ queue = <<>>
  /\ scanned = 0
  /\ yielded = <<>>
  /\ appended = <<>>
  /\ exceeded = FALSE
  /\ rollovers = 0
  /\ calls = 0
  /\ held = NoResult
  /\ text \in Texts
  /\ res = NoLine

\* res = self.shorten(text)
Shorten ==
  /\ pc = "shorten"
  /\ res' = shorten(text, width)
  /\ pc' = "shortened"
  /\ UNCHANGED <<config, target, page, error, locals, history, caller, text>>

ShortenNext == Shorten

ShortenSpec == ShortenInit /\ [][ShortenNext]_vars

\* ------------------------------------------------------------ properties
Returned == pc = "done"

\* the lines of a page between its two fences
Content(p) == SubSeq(p, 2, Len(p) - 1)

RECURSIVE Concat(_)
Concat(ps) == IF ps = <<>> THEN <<>> ELSE Content(ps[1]) \o Concat(Tail(ps))

\* len('\n'.join(lines)) of a page without its closing fence
PageContentLen(p) == SumLen(Front(p)) + Len(Front(p)) - 1

Positions(ps, line) ==
  UNION {{<<i, j>> : j \in {k \in 1..Len(ps[i]) : ps[i][k] = line}} :
           i \in 1..Len(ps)}

Occurs(lines, line) == Cardinality({j \in 1..Len(lines) : lines[j] = line})

EntriesOf(lines) == {lines[j] : j \in {i \in 1..Len(lines) : lines[i].kind = "entry"}}

\* C1: every entry line that _add_subcommands_to_page produced is, as one
\* whole line, in exactly one page: while the run lasts in one of the closed
\* pages or in the page in progress, and in exactly one of the returned
\* pages when format() has returned.
C1_NoSplit ==
  \A e \in EntriesOf(appended) :
     IF Returned
     THEN Cardinality(Positions(_pages, e)) = 1
     ELSE Cardinality(Positions(_pages, e)) + Occurs(_current_page, e) = 1

\* a rollover between two entry lines: both pages returned hold an entry
C1_Witness ==
  /\ Returned
  /\ rollovers >= 1
  /\ \E i, j \in 1..Len(_pages) :
       /\ i < j
       /\ EntriesOf(_pages[i]) # {}
       /\ EntriesOf(_pages[j]) # {}

\* C2: in the pages returned for the root, every category header is
\* followed, in the same page, by an entry line of a member of the category.
C2_HeaderAttached ==
  (Returned /\ is_bot(command)) =>
    \A i \in 1..Len(_pages) : \A j \in 1..Len(_pages[i]) :
       _pages[i][j].kind = "header" =>
         /\ j + 1 <= Len(_pages[i])
         /\ _pages[i][j + 1].kind = "entry"
         /\ _pages[i][j + 1].label = _pages[i][j].label

\* C3: every returned page, its closing fence not counted, is at most
\* page_size_limit + len(fence) + a fixed constant long.
C3_Budget ==
  Returned =>
    \A i \in 1..Len(_pages) :
       PageContentLen(_pages[i]) <= PageLimit + FenceLen + Overhead

\* C4: no returned page is only the two fences, unless the run appended no
\* content line at all.
C4_NoEmptyPage ==
  (Returned /\ appended # <<>>) =>
    \A i \in 1..Len(_pages) : Content(_pages[i]) # <<>>

\* C5: with show_check_faiure false, a check that raises its check-failed
\* condition is treated as "not visible": it never ends the run of
\* format_help_for with that exception.
C5_CheckFailureAbsorbed ==
  ~(pc = "raised" /\ error = "CheckFailure")

\* C6: for a root or a group whose children mapping is empty, format()
\* returns its pages and raises nothing.
C6_EmptyCatalogReturns ==
  (pc # "idle" /\ has_subcommands(command) /\ command.commands = <<>>) =>
    pc # "raised"

\* the rule of the filter as the specification states it
Visible(cmd) ==
  /\ ~(cmd.hidden /\ ~show_hidden)
  /\ (show_check_faiure \/ cmd.can_run = "True")

KeysOf(items) == {items[i][1] : i \in 1..Len(items)}

\* C7: the filter yields (name, command) exactly when NOT (hidden and not
\* show_hidden) AND (show_check_faiure OR the check returns true), in the
\* order of the catalog: what it has yielded is, at every point of the run,
\* the visible entries among those it has consumed, and every entry line
\* on a page is the line of a visible entry.
C7_FilterRule ==
  pc # "idle" /\ has_subcommands(command) =>
    /\ yielded = SelectSeq(SubSeq(command.commands, 1, scanned),
                           LAMBDA tup : Visible(tup[2]))
    /\ \A e \in EntriesOf(appended) :
          \E i \in 1..Len(command.commands) :
             /\ command.commands[i][1] = e.name
             /\ Visible(command.commands[i][2])

\* the filter consumed the whole catalog, kept some entries and dropped a
\* hidden one although show_check_faiure is set
C7_Witness ==
  /\ Returned
  /\ has_subcommands(command)
  /\ scanned = Len(command.commands)
  /\ yielded # <<>>
  /\ show_check_faiure /\ ~show_hidden
  /\ \E i \in 1..Len(command.commands) :
       /\ command.commands[i][2].hidden
       /\ command.commands[i][1] \notin KeysOf(yielded)

HeadersOf(lines) == SelectSeq(lines, LAMBDA l : l.kind = "header")

\* C8: the headers of the root listing are in ascending order of their
\* labels, none twice, and the header of the commands without a category
\* is behind the header of every named category.
C8_CategoryOrder ==
  (Returned /\ is_bot(command)) =>
    LET hs == HeadersOf(Concat(_pages))
    IN /\ \A i, j \in 1..Len(hs) : i < j => StrLess(hs[i].label, hs[j].label)
       /\ \A i \in 1..Len(hs) :
             hs[i].label = SentinelLabel => i = Len(hs)

\* C9: every visible command of the target has exactly one entry line in
\* the listing: the keys that are aliases add none, and a command that is
\* registered under a key that is also one of its aliases has one.
C9_OncePerCommand ==
  (Returned /\ has_subcommands(command)) =>
    \A i \in 1..Len(yielded) :
       Cardinality({e \in EntriesOf(Concat(_pages)) :
                      \E k \in 1..Len(yielded) :
                         /\ yielded[k][2] = yielded[i][2]
                         /\ yielded[k][1] = e.name}) = 1

VisibleItems == SelectSeq(command.commands, LAMBDA tup : Visible(tup[2]))

\* the labels of a set in ascending order
RECURSIVE Ascending(_)
Ascending(labels) ==
  IF labels = {} THEN <<>>
  ELSE LET m == CHOOSE x \in labels : \A y \in labels \ {x} : StrLess(x, y)
       IN <<m>> \o Ascending(labels \ {m})

RECURSIVE EntryLines(_, _)
EntryLines(items, label) ==
  IF items = <<>> THEN <<>>
  ELSE (IF category(items[1]) = label THEN EntryLine(items[1], max_width) ELSE <<>>)
       \o EntryLines(Tail(items), label)

RECURSIVE Sections(_)
Sections(labels) ==
  IF labels = <<>> THEN <<>>
  ELSE <<Line("header", Len(labels[1]), "", labels[1])>>
       \o EntryLines(VisibleItems, labels[1])
       \o Sections(Tail(labels))

ExpectedListing ==
  Sections(Ascending({category(VisibleItems[i]) : i \in 1..Len(VisibleItems)}))

ExpectedTail == <<Blank, Line("note", get_ending_note(context), "", None)>>

ExpectedDescription ==
  IF command.description # 0
  THEN <<Line("description", command.description, "", None), Blank>>
  ELSE <<>>

\* C10 as stated: for a root whose running size never exceeds the limit,
\* format() returns one page whose content is, for each category in sorted
\* order, its header and the entry lines of its members, then a blank line
\* and the ending note.
C10_SinglePageAsStated ==
  (Returned /\ is_bot(command) /\ ~exceeded) =>
    /\ Len(_pages) = 1
    /\ Content(_pages[1]) = ExpectedListing \o ExpectedTail

\* C10: for a root whose running size never exceeds the limit, format()
\* returns one page whose content is the description and a blank line when
\* the root has a description, then for each category in sorted order its
\* header and the entry lines of its members in the order of the catalog (a
\* key that is an alias of its command gives none), then a blank line and
\* the ending note, between the two fences.
C10_SinglePageOrder ==
  (Returned /\ is_bot(command) /\ ~exceeded) =>
    /\ Len(_pages) = 1
    /\ _pages[1] = <<Fence>> \o ExpectedDescription \o ExpectedListing
                     \o ExpectedTail \o <<Fence>>

\* a root with a description and two categories, one of them with two
\* members that the catalog does not hold in the order of the categories
C10_Witness ==
  /\ Returned /\ is_bot(command) /\ ~exceeded
  /\ command.description # 0
  /\ Len(HeadersOf(_pages[1])) >= 2
  /\ \E i \in 1..Len(_pages[1]) :
       /\ i + 2 <= Len(_pages[1])
       /\ _pages[1][i].kind = "header"
       /\ _pages[1][i + 1].kind = "entry"
       /\ _pages[1][i + 2].kind = "entry"
  /\ category(yielded[1]) # HeadersOf(_pages[1])[1].label

\* ------------------------------------------------- the steps of a run
\* the lines a step appends
NewLines == SubSeq(appended', Len(appended) + 1, Len(appended'))

\* the step closes a page in _check_new_page
RollsOver == rollovers' > rollovers

\* the page a step closes
ClosedPage == _pages'[Len(_pages')]

ExpectedSignature ==
  <<Line("signature", get_command_signature(context, command), "", None), Blank>>

ExpectedHelp ==
  IF command.help # 0 THEN <<Line("help", command.help, "", None), Blank>> ELSE <<>>

IsLeaf == command.kind = "command"

\* C11: for a command without subcommands format() returns, and the content
\* of the returned pages is the description and a blank line when there is
\* a description, the signature line, a blank line, and when there is help
\* the help text and a blank line: no 'Commands:' header, no category
\* header, no entry line, no ending note. When the running size never
\* exceeded the limit it is one page.
C11_LeafPages ==
  /\ (IsLeaf /\ pc = "raised") => FALSE
  /\ (IsLeaf /\ Returned) =>
       /\ Concat(_pages) = ExpectedDescription \o ExpectedSignature \o ExpectedHelp
       /\ \A i \in 1..Len(_pages) : \A j \in 1..Len(_pages[i]) :
            _pages[i][j].kind \notin {"commands", "header", "entry", "note"}
       /\ ~exceeded => Len(_pages) = 1

\* a leaf with a description and a help text that fit in one page
C11_Witness ==
  /\ IsLeaf /\ Returned /\ ~exceeded
  /\ command.description # 0
  /\ command.help # 0
  /\ Len(_pages) = 1

\* C13 as stated: in a step that adds a category header, an entry line or
\* the ending note and closes a page, the line added is the last content
\* line of the page closed.
C13_PushedBeforeCheck ==
  [][(RollsOver /\ pc \in {"category", "entries", "subentries", "note"}) =>
       /\ Content(ClosedPage) # <<>>
       /\ Last(Content(ClosedPage)) = Last(NewLines)]_vars

\* C13: a category header is appended and counted before the check, so the
\* header that makes the running size exceed the limit is the last content
\* line of the page closed and the new page is the fence alone. An entry
\* line and the ending note are counted, then checked, then appended: the
\* page closed is the page as it was before the line (with the blank line
\* in front of the ending note), and the line is the first content line of
\* the new page.
C13_CountCheckAppend ==
  [][RollsOver =>
       CASE pc = "category" ->
              /\ ClosedPage = _current_page \o NewLines \o <<Fence>>
              /\ Last(Content(ClosedPage)).kind = "header"
              /\ _current_page' = <<Fence>>
         [] pc \in {"entries", "subentries"} ->
              /\ ClosedPage = Append(_current_page, Fence)
              /\ Len(NewLines) = 1
              /\ NewLines[1].kind = "entry"
              /\ _current_page' = <<Fence, NewLines[1]>>
         [] pc = "note" ->
              /\ ClosedPage = _current_page \o <<Blank, Fence>>
              /\ NewLines = ExpectedTail
              /\ _current_page' = <<Fence, NewLines[2]>>
         [] OTHER -> TRUE]_vars

\* an entry line has closed a page and is the first line of the new one
C13_Witness ==
  /\ pc \in {"entries", "subentries"}
  /\ rollovers >= 1
  /\ Len(_current_page) = 2
  /\ _current_page[2].kind = "entry"
  /\ _count = ResetCount

\* a step in which _check_new_page runs
CheckRuns ==
  \/ pc \in {"category", "note"}
  \/ pc \in {"entries", "subentries"} /\ NewLines # <<>>
  \/ pc = "signature" /\ ~is_bot(command) /\ command.help # 0

\* the running size the check of the step compares with the limit
Counted ==
  IF pc = "signature"
  THEN _count + 2 + get_command_signature(context, command) + 2 + command.help
  ELSE IF pc = "note"
  THEN _count + get_ending_note(context)
  ELSE _count + SumLen(NewLines)

\* C14: _check_new_page closes the page if and only if the running size is
\* strictly greater than the limit; when it is less than or equal to the
\* limit the pages, the lines of the page in progress and the running size
\* are as they were before the check.
C14_StrictlyGreater ==
  [][CheckRuns =>
       /\ (Len(_pages') = Len(_pages) + 1) <=> (Counted > PageLimit)
       /\ Counted <= PageLimit =>
            /\ _pages' = _pages
            /\ _count' = Counted
            /\ _current_page' = _current_page \o NewLines]_vars

\* the check has run with the running size equal to the limit
C14_Witness ==
  /\ pc = "subcommands"
  /\ command.help # 0
  /\ _count = PageLimit
  /\ _pages = <<>>

\* C15 as stated: format() starts with the running size len(fence) + 1,
\* the page in progress the fence alone and no page; after a rollover the
\* running size is reset to len(fence), without the + 1.
C15_ResetToFence ==
  [][/\ pc = "idle" =>
          /\ _count' = FenceLen + 1
          /\ _current_page' = <<Fence>>
          /\ _pages' = <<>>
     /\ RollsOver => _count' = FenceLen]_vars

\* C15: format() starts with the running size len(fence) + 1, the page in
\* progress the fence alone and no page; _check_new_page resets the running
\* size to len(fence) + 1 too, and the page in progress to the fence alone,
\* behind which the step appends the entry line or the ending note that it
\* had counted before the check (its length is not counted again).
C15_ResetToInitial ==
  [][/\ pc = "idle" =>
          /\ _count' = FenceLen + 1
          /\ _current_page' = <<Fence>>
          /\ _pages' = <<>>
     /\ RollsOver =>
          /\ _count' = FenceLen + 1
          /\ _current_page' = IF pc \in {"entries", "subentries", "note"}
                              THEN <<Fence, Last(NewLines)>>
                              ELSE <<Fence>>]_vars

\* a rollover has left the fence alone in the page in progress
C15_Witness ==
  /\ rollovers >= 1
  /\ _current_page = <<Fence>>
  /\ _count = ResetCount
  /\ pc \in {"subcommands", "entries"}

\* the place of a key in the catalog of the target
KeyIndex(k) ==
  CHOOSE i \in 1..Len(command.commands) : command.commands[i][1] = k

EntrySeq(lines) == SelectSeq(lines, LAMBDA l : l.kind = "entry")

\* C16: in the pages returned, the entry lines of one category of the root,
\* and all the entry lines of a group, are in the order of the catalog.
C16_InsertionOrder ==
  (Returned /\ has_subcommands(command)) =>
    LET es == EntrySeq(Concat(_pages))
    IN \A i, j \in 1..Len(es) :
         (i < j /\ (is_bot(command) => es[i].label = es[j].label)) =>
           KeyIndex(es[i].name) < KeyIndex(es[j].name)

\* two members of one category of the root with a rollover between their
\* entry lines
C16_Witness ==
  /\ Returned /\ is_bot(command)
  /\ \E i, j \in 1..Len(_pages) :
       /\ i < j
       /\ \E a \in EntriesOf(_pages[i]), b \in EntriesOf(_pages[j]) :
            /\ a.label = b.label
            /\ KeyIndex(a.name) < KeyIndex(b.name)

\* C17: for the root or a group with at least one child, format() returns
\* at least one page and the ending note is the last content line of the
\* last page.
C17_NoteLast ==
  (has_subcommands(command) /\ command.commands # <<>>
     /\ pc \in {"done", "raised"}) =>
    /\ Returned
    /\ Len(_pages) >= 1
    /\ Content(_pages[Len(_pages)]) # <<>>
    /\ Last(Content(_pages[Len(_pages)])) = ExpectedTail[2]

\* C18: when format() has returned, the content lines of the returned
\* pages, one page after the other, are the lines the run appended, in the
\* order in which it appended them.
C18_NothingLost ==
  Returned => Concat(_pages) = appended

\* a run that returned after two rollovers
C18_Witness ==
  /\ Returned
  /\ rollovers >= 2
  /\ Len(_pages) >= 3

InRun == pc \notin {"idle", "done", "raised"}

\* C19: every page in _pages has the fence as its first and as its last
\* line; the first line of the page in progress is the fence; a page once
\* appended to _pages stays where it is and as it is while the run lasts.
C19_Fenced ==
  /\ [](/\ \A i \in 1..Len(_pages) :
             /\ Len(_pages[i]) >= 2
             /\ _pages[i][1] = Fence
             /\ Last(_pages[i]) = Fence
        /\ pc # "idle" => (_current_page # <<>> /\ _current_page[1] = Fence))
  /\ [][InRun =>
          /\ Len(_pages') \in {Len(_pages), Len(_pages) + 1}
          /\ SubSeq(_pages', 1, Len(_pages)) = _pages]_vars

\* three pages returned, the first two closed by a rollover
C19_Witness ==
  /\ Returned
  /\ Len(_pages) = 3
  /\ rollovers = 2
  /\ \A i \in 1..3 : Content(_pages[i]) # <<>>

Shortened == pc = "shortened"

\* C12 as stated: shorten returns the first line of the greedy wrap of the
\* text at the width, with nothing appended to mark the truncation, and the
\* line is at most width long.
C12_FirstLineOnly ==
  Shortened =>
    /\ res.len = FirstWrapLine(text, width).len
    /\ ~res.placeholder
    /\ res.len <= width

\* C12: shorten returns one line at most width long. When the greedy wrap
\* of the text has one line, it is that line; when it has more, it is the
\* first line cut behind one of its words and followed by the placeholder
\* ' [...]', or the placeholder '[...]' alone when no word of the first line
\* leaves room for it.
C12_FirstLineOrPlaceholder ==
  Shortened =>
    LET first == FirstWrapLine(text, width)
    IN /\ res.len <= width
       /\ ~first.more =>
            /\ ~res.placeholder
            /\ res.len = first.len
       /\ first.more =>
            /\ res.placeholder
            /\ res.kept <= first.len
            /\ res.len = IF res.kept = 0 THEN PlaceholderLen - 1
                         ELSE res.kept + PlaceholderLen

\* a text of more than one line, shortened to a part of its first line and
\* the placeholder
C12_Witness ==
  /\ Shortened
  /\ FirstWrapLine(text, width).more
  /\ res.placeholder
  /\ 0 < res.kept
  /\ res.kept < FirstWrapLine(text, width).len

\* the list the first call returned, as its caller sees it
HeldValue == IF held.aliased THEN _pages ELSE held.value

\* C20: what a second call of format_help_for on an instance returns or
\* raises is what a new instance returns or raises for the same context
\* and target, and no step of the second call changes the list that the
\* first call returned.
C20_NoLeak ==
  /\ []((calls >= 2 /\ pc \in {"done", "raised"}) =>
          LET fresh == format(context, command)
          IN /\ fresh.out = pc
             /\ fresh.error = error
             /\ Returned => _pages = fresh.pages)
  /\ [][held.set => (held'.set /\ HeldValue' = HeldValue)]_vars

\* the second call has returned pages after a rollover, the first call
\* returned other pages, which its caller still holds
C20_Witness ==
  /\ calls = 2
  /\ Returned
  /\ rollovers >= 1
  /\ held.set
  /\ Len(HeldValue) >= 2
  /\ HeldValue # _pages

====
